---- MODULE Spec2Model ----
(***************************************************************************)
(* Model of the library catalog of src/main.rs: the Library aggregate      *)
(* (books, users), its operations add_book, add_user, display_books,       *)
(* issue_book and return_book, and its persistence to one JSON document    *)
(* (save_to_file, load_from_file).                                         *)
(***************************************************************************)
EXTENDS Integers, Sequences, FiniteSets, TLC

VARIABLES library, out, file, pc

vars == <<library, out, file, pc>>

(* ------------------------------ bounds --------------------------------- *)

MaxBooks == 3
MaxUsers == 2

\* the size of the catalogs that are saved and loaded
PMaxBooks == 2
PMaxUsers == 2

\* Strings handed to the operations.  The catalog performs no validation,
\* so the blank string is a legal argument of every operation.
Titles  == {"Echo", "Dune"}
Authors == {"Herbert"}
Names   == {"Alice", "Bob"}

(* ----------------------------- helpers --------------------------------- *)

\* Iterator::any over a Vec
AnyOf(s, P(_)) == \E i \in 1..Len(s) : P(s[i])

\* Iterator::position: index of the first element satisfying P, 0 for None
Position(s, P(_)) ==
    IF AnyOf(s, P)
    THEN CHOOSE i \in 1..Len(s) : P(s[i]) /\ \A j \in 1..(i - 1) : ~P(s[j])
    ELSE 0

\* Vec::remove(index): the elements after index shift left
Remove(s, index) ==
    [i \in 1..(Len(s) - 1) |-> IF i < index THEN s[i] ELSE s[i + 1]]

\* Vec::contains
Contains(s, x) == \E i \in 1..Len(s) : s[i] = x

(* --------------------------- the Library ------------------------------- *)

\* Library::new
new == [books |-> <<>>, users |-> <<>>]

\* One line printed by an operation: the operation, which message, and the
\* strings interpolated into it.
Msg(op, outcome, args) == [op |-> op, outcome |-> outcome, args |-> args]

\* Nothing printed.
NoOut == Msg("none", "none", <<>>)

\* A variant of add_book that numbers the books from 0.
add_book_from0(self, title, author) ==
    LET id == Len(self.books)
    IN  [lib |-> [self EXCEPT !.books = Append(@,
                    [id |-> id, title |-> title, author |-> author,
                     is_issued |-> FALSE])],
         out |-> Msg("add_book", "Added", <<title, author>>)]

\* Library::add_book
add_book(self, title, author) ==
    LET id == Len(self.books) + 1   \* u32; the counts stay far below 2^32
    IN  [lib |-> [self EXCEPT !.books = Append(@,
                    [id |-> id, title |-> title, author |-> author,
                     is_issued |-> FALSE])],
         out |-> Msg("add_book", "Added", <<title, author>>)]

\* the test of add_user, issue_book and return_book: a user has this name
user_exists(self, name) == AnyOf(self.users, LAMBDA u : u.name = name)

\* A variant of add_user that reports the duplicate and appends anyway.
add_user_keep_duplicate(self, name) ==
    LET id == Len(self.users) + 1
    IN  [lib |-> [self EXCEPT !.users = Append(@,
                    [id |-> id, name |-> name, borrowed_books |-> <<>>])],
         out |-> IF user_exists(self, name)
                 THEN Msg("add_user", "DuplicateUser", <<name>>)
                 ELSE Msg("add_user", "Added", <<name>>)]

\* Library::add_user
add_user(self, name) ==
    IF ~user_exists(self, name)
    THEN LET id == Len(self.users) + 1
         IN  [lib |-> [self EXCEPT !.users = Append(@,
                         [id |-> id, name |-> name, borrowed_books |-> <<>>])],
              out |-> Msg("add_user", "Added", <<name>>)]
    ELSE [lib |-> self, out |-> Msg("add_user", "DuplicateUser", <<name>>)]

\* Library::display_books
display_books(self) ==
    IF self.books = <<>>
    THEN [lib |-> self, out |-> Msg("display_books", "NoBooks", <<>>)]
    ELSE [lib |-> self,
          out |-> Msg("display_books", "Listing",
                      [i \in 1..Len(self.books) |->
                         [id |-> self.books[i].id,
                          title |-> self.books[i].title,
                          author |-> self.books[i].author,
                          status |-> IF self.books[i].is_issued
                                     THEN "Issued" ELSE "Available"]])]

\* A variant of the availability test that looks at the title only.
book_exists_any_copy(self, title) ==
    AnyOf(self.books, LAMBDA b : b.title = title)

\* issue_book: some book has the title and is not issued
book_exists_and_available(self, title) ==
    AnyOf(self.books, LAMBDA b : b.title = title /\ ~b.is_issued)

\* A variant of mark_issued that takes the last available copy.
mark_issued_last(books, title) ==
    LET av == {i \in 1..Len(books) : books[i].title = title /\ ~books[i].is_issued}
        bi == IF av = {} THEN 0 ELSE CHOOSE i \in av : \A j \in av : j <= i
    IN  IF bi = 0 THEN [books |-> books, book_id |-> 0]
        ELSE [books |-> [books EXCEPT ![bi].is_issued = TRUE],
              book_id |-> books[bi].id]

\* A variant of mark_issued without the break: every available copy is
\* flagged and the id of the last one is noted.
mark_issued_all(books, title) ==
    LET av == {i \in 1..Len(books) : books[i].title = title /\ ~books[i].is_issued}
    IN  IF av = {} THEN [books |-> books, book_id |-> 0]
        ELSE [books |-> [i \in 1..Len(books) |->
                           IF i \in av THEN [books[i] EXCEPT !.is_issued = TRUE]
                           ELSE books[i]],
              book_id |-> books[CHOOSE i \in av : \A j \in av : j <= i].id]

\* issue_book: the loop that flags the first available copy and notes its id
mark_issued(books, title) ==
    LET bi == Position(books, LAMBDA b : b.title = title /\ ~b.is_issued)
    IN  IF bi = 0 THEN [books |-> books, book_id |-> 0]
        ELSE [books |-> [books EXCEPT ![bi].is_issued = TRUE],
              book_id |-> books[bi].id]

\* A variant of issue_book that looks for the book before the user.
issue_book_book_first(self, title, user) ==
    IF ~book_exists_and_available(self, title)
    THEN [lib |-> self, out |-> Msg("issue_book", "BookUnavailable", <<title>>)]
    ELSE
    IF ~user_exists(self, user)
    THEN [lib |-> self, out |-> Msg("issue_book", "UnknownUser", <<user>>)]
    ELSE
    LET m  == mark_issued(self.books, title)
        ui == Position(self.users, LAMBDA u : u.name = user)
    IN  [lib |-> [books |-> m.books,
                  users |-> [self.users EXCEPT ![ui].borrowed_books =
                                                  Append(@, m.book_id)]],
         out |-> Msg("issue_book", "Issued", <<title, user>>)]

\* Library::issue_book
issue_book(self, title, user) ==
    IF ~user_exists(self, user)
    THEN [lib |-> self, out |-> Msg("issue_book", "UnknownUser", <<user>>)]
    ELSE
    IF ~book_exists_and_available(self, title)
    THEN [lib |-> self, out |-> Msg("issue_book", "BookUnavailable", <<title>>)]
    ELSE
    LET m  == mark_issued(self.books, title)
        ui == Position(self.users, LAMBDA u : u.name = user)
    IN  IF ui = 0
        THEN [lib |-> [books |-> m.books, users |-> self.users], out |-> NoOut]
        ELSE [lib |-> [books |-> m.books,
                       users |-> [self.users EXCEPT ![ui].borrowed_books =
                                                       Append(@, m.book_id)]],
              out |-> Msg("issue_book", "Issued", <<title, user>>)]

\* A variant of the borrower test that accepts any user's loan.
user_borrowed_anyone(self, user, book_id) ==
    AnyOf(self.users, LAMBDA u : Contains(u.borrowed_books, book_id))

\* return_book: the named user holds the resolved book
user_borrowed(self, user, book_id) ==
    AnyOf(self.users,
          LAMBDA u : u.name = user /\ Contains(u.borrowed_books, book_id))

\* A variant of clear_issued that clears the last issued copy.
clear_issued_last(books, title) ==
    LET is == {i \in 1..Len(books) : books[i].title = title /\ books[i].is_issued}
    IN  IF is = {} THEN books
        ELSE [books EXCEPT ![CHOOSE i \in is : \A j \in is : j <= i].is_issued = FALSE]

\* return_book: the loop that clears the flag of the first issued copy
clear_issued(books, title) ==
    LET bi == Position(books, LAMBDA b : b.title = title /\ b.is_issued)
    IN  IF bi = 0 THEN books ELSE [books EXCEPT ![bi].is_issued = FALSE]

\* A variant of remove_borrowed that leaves the list as it is.
remove_borrowed_nothing(borrowed_books, book_id) == borrowed_books

\* return_book: remove the first occurrence of book_id, if there is one
remove_borrowed(borrowed_books, book_id) ==
    LET index == Position(borrowed_books, LAMBDA id : id = book_id)
    IN  IF index = 0 THEN borrowed_books ELSE Remove(borrowed_books, index)

\* A variant of return_book that clears the flag before it tests the borrower.
return_book_clear_early(self, title, user) ==
    IF ~user_exists(self, user)
    THEN [lib |-> self, out |-> Msg("return_book", "UnknownUser", <<user>>)]
    ELSE
    LET fi == Position(self.books, LAMBDA b : b.title = title /\ b.is_issued)
    IN
    IF fi = 0
    THEN [lib |-> self, out |-> Msg("return_book", "BookNotIssued", <<title>>)]
    ELSE
    LET book_id == self.books[fi].id
        books2  == clear_issued(self.books, title)
    IN
    IF ~user_borrowed(self, user, book_id)
    THEN [lib |-> [books |-> books2, users |-> self.users],
          out |-> Msg("return_book", "NotBorrowedByUser", <<user, title>>)]
    ELSE
    LET ui == Position(self.users, LAMBDA u : u.name = user)
    IN  [lib |-> [books |-> books2,
                  users |-> [self.users EXCEPT ![ui].borrowed_books =
                                remove_borrowed(@, book_id)]],
         out |-> Msg("return_book", "Returned", <<title, user>>)]

\* Library::return_book
return_book(self, title, user) ==
    IF ~user_exists(self, user)
    THEN [lib |-> self, out |-> Msg("return_book", "UnknownUser", <<user>>)]
    ELSE
    LET fi == Position(self.books, LAMBDA b : b.title = title /\ b.is_issued)
    IN
    IF fi = 0
    THEN [lib |-> self, out |-> Msg("return_book", "BookNotIssued", <<title>>)]
    ELSE
    LET book_id == self.books[fi].id IN
    IF ~user_borrowed(self, user, book_id)
    THEN [lib |-> self,
          out |-> Msg("return_book", "NotBorrowedByUser", <<user, title>>)]
    ELSE
    LET books2 == clear_issued(self.books, title)
        ui     == Position(self.users, LAMBDA u : u.name = user)
    IN  IF ui = 0
        THEN [lib |-> [books |-> books2, users |-> self.users], out |-> NoOut]
        ELSE [lib |-> [books |-> books2,
                       users |-> [self.users EXCEPT ![ui].borrowed_books =
                                     remove_borrowed(@, book_id)]],
              out |-> Msg("return_book", "Returned", <<title, user>>)]

(* ------------------------- JSON persistence ---------------------------- *)

\* A JSON text is modelled as its sequence of tokens: punctuation, string
\* literals, number literals and boolean literals.
P(c) == <<"p", c>>
S(s) == <<"s", s>>
N(n) == <<"n", n>>
B(b) == <<"b", b>>

IsP(tok, c) == tok[1] = "p" /\ tok[2] = c

RECURSIVE Join(_)
\* the token sequences of s, separated by commas
Join(s) ==
    IF s = <<>> THEN <<>>
    ELSE IF Len(s) = 1 THEN s[1]
    ELSE s[1] \o <<P(",")>> \o Join(Tail(s))

\* derive(Serialize) for Book: the fields in declaration order
ser_Book(b) ==
    <<P("{"), S("id"), P(":"), N(b.id), P(","),
      S("title"), P(":"), S(b.title), P(","),
      S("author"), P(":"), S(b.author), P(","),
      S("is_issued"), P(":"), B(b.is_issued), P("}")>>

\* derive(Serialize) for User
ser_User(u) ==
    <<P("{"), S("id"), P(":"), N(u.id), P(","),
      S("name"), P(":"), S(u.name), P(","),
      S("borrowed_books"), P(":"), P("[")>>
    \o Join([i \in 1..Len(u.borrowed_books) |-> <<N(u.borrowed_books[i])>>])
    \o <<P("]"), P("}")>>

\* serde_json::to_string for Library
to_string(self) ==
    <<P("{"), S("books"), P(":"), P("[")>>
    \o Join([i \in 1..Len(self.books) |-> ser_Book(self.books[i])])
    \o <<P("]"), P(","), S("users"), P(":"), P("[")>>
    \o Join([i \in 1..Len(self.users) |-> ser_User(self.users[i])])
    \o <<P("]"), P("}")>>

\* The fields of each struct and the type of each field.
Fields(ty) ==
    CASE ty = "Library" -> [books |-> "Vec<Book>", users |-> "Vec<User>"]
      [] ty = "Book"    -> [id |-> "u32", title |-> "String",
                            author |-> "String", is_issued |-> "bool"]
      [] ty = "User"    -> [id |-> "u32", name |-> "String",
                            borrowed_books |-> "Vec<u32>"]

\* The fields of each struct in declaration order.
FieldOrder(ty) ==
    CASE ty = "Library" -> <<"books", "users">>
      [] ty = "Book"    -> <<"id", "title", "author", "is_issued">>
      [] ty = "User"    -> <<"id", "name", "borrowed_books">>

IsStruct(ty) == ty \in {"Library", "Book", "User"}
IsVec(ty)    == ty \in {"Vec<Book>", "Vec<User>", "Vec<u32>", "Vec<any>"}
ElemType(ty) ==
    CASE ty = "Vec<Book>" -> "Book"
      [] ty = "Vec<User>" -> "User"
      [] ty = "Vec<u32>"  -> "u32"
      [] ty = "Vec<any>"  -> "any"

Fail == [ok |-> FALSE, val |-> <<>>, pos |-> 0]
Done(v, i) == [ok |-> TRUE, val |-> v, pos |-> i]

\* The struct value built from the collected fields.
Build(ty, acc) ==
    CASE ty = "Library" -> [books |-> acc["books"], users |-> acc["users"]]
      [] ty = "Book"    -> [id |-> acc["id"], title |-> acc["title"],
                            author |-> acc["author"],
                            is_issued |-> acc["is_issued"]]
      [] ty = "User"    -> [id |-> acc["id"], name |-> acc["name"],
                            borrowed_books |-> acc["borrowed_books"]]
      [] OTHER          -> <<>>

RECURSIVE de_value(_, _, _), de_fields(_, _, _, _, _), de_elems(_, _, _, _, _)
RECURSIVE de_seq(_, _, _, _)

\* Deserialize one value of type ty from the tokens of d starting at i.
\* Type "any" is a value that is skipped (the value of an unknown field).
de_value(d, i, ty) ==
    IF i > Len(d) THEN Fail
    ELSE
    LET tok == d[i] IN
    CASE ty = "u32"    -> IF tok[1] = "n" /\ tok[2] >= 0
                          THEN Done(tok[2], i + 1) ELSE Fail
      [] ty = "String" -> IF tok[1] = "s" THEN Done(tok[2], i + 1) ELSE Fail
      [] ty = "bool"   -> IF tok[1] = "b" THEN Done(tok[2], i + 1) ELSE Fail
      [] IsVec(ty)     -> IF IsP(tok, "[")
                          THEN de_elems(d, i + 1, ElemType(ty), <<>>, TRUE)
                          ELSE Fail
      [] IsStruct(ty)  -> IF IsP(tok, "{")
                          THEN de_fields(d, i + 1, ty, <<>>, TRUE)
                          ELSE IF IsP(tok, "[")
                          THEN de_seq(d, i + 1, ty, <<>>)
                          ELSE Fail
      [] ty = "any"    -> IF tok[1] \in {"n", "s", "b"} THEN Done(<<>>, i + 1)
                          ELSE IF IsP(tok, "[")
                          THEN de_elems(d, i + 1, "any", <<>>, TRUE)
                          ELSE IF IsP(tok, "{")
                          THEN de_fields(d, i + 1, "any", <<>>, TRUE)
                          ELSE Fail

\* The elements of an array after "[" (first) or after an element.
de_elems(d, i, ety, acc, first) ==
    IF i > Len(d) THEN Fail
    ELSE IF IsP(d[i], "]") THEN Done(acc, i + 1)
    ELSE
    LET j == IF first THEN i ELSE i + 1 IN
    IF ~first /\ ~IsP(d[i], ",") THEN Fail
    ELSE
    LET r == de_value(d, j, ety) IN
    IF ~r.ok THEN Fail
    ELSE de_elems(d, r.pos, ety, IF ety = "any" THEN acc ELSE Append(acc, r.val), FALSE)

\* A struct written as an array: its fields in declaration order, no more
\* and no fewer.  acc is the sequence of the field values read so far.
de_seq(d, i, ty, acc) ==
    LET k == Len(acc) + 1
        order == FieldOrder(ty)
    IN
    IF i > Len(d) THEN Fail
    ELSE IF k > Len(order)
    THEN IF IsP(d[i], "]")
         THEN Done(Build(ty, [f \in DOMAIN Fields(ty) |->
                  acc[CHOOSE n \in 1..Len(order) : order[n] = f][1]]), i + 1)
         ELSE Fail
    ELSE
    LET j == IF k = 1 THEN i ELSE i + 1 IN
    IF k > 1 /\ ~IsP(d[i], ",") THEN Fail
    ELSE
    LET r == de_value(d, j, Fields(ty)[order[k]]) IN
    IF ~r.ok THEN Fail
    ELSE de_seq(d, r.pos, ty, Append(acc, <<r.val>>))

\* The members of an object after "{" (first) or after a member.  acc is
\* the function from the field names seen so far to their values.  Unknown
\* fields are skipped, a repeated field and a missing field are errors.
de_fields(d, i, ty, acc, first) ==
    IF i > Len(d) THEN Fail
    ELSE IF IsP(d[i], "}")
    THEN IF ty = "any" THEN Done(<<>>, i + 1)
         ELSE IF DOMAIN Fields(ty) \subseteq DOMAIN acc
         THEN Done(Build(ty, acc), i + 1) ELSE Fail
    ELSE
    LET j == IF first THEN i ELSE i + 1 IN
    IF ~first /\ ~IsP(d[i], ",") THEN Fail
    ELSE IF j + 1 > Len(d) THEN Fail
    ELSE IF d[j][1] # "s" \/ ~IsP(d[j + 1], ":") THEN Fail
    ELSE
    LET key   == d[j][2]
        known == ty # "any" /\ key \in DOMAIN Fields(ty)
    IN
    IF known /\ key \in DOMAIN acc THEN Fail
    ELSE
    LET r == de_value(d, j + 2, IF known THEN Fields(ty)[key] ELSE "any") IN
    IF ~r.ok THEN Fail
    ELSE de_fields(d, r.pos, ty, IF known THEN acc @@ (key :> r.val) ELSE acc, FALSE)

\* serde_json::from_str::<Library>: one value, then the end of the text
from_str(data) ==
    LET r == de_value(data, 1, "Library") IN
    IF r.ok /\ r.pos = Len(data) + 1
    THEN [ok |-> TRUE, val |-> r.val]
    ELSE [ok |-> FALSE, val |-> <<>>]

\* What is at the path: nothing ("absent"), a regular file whose content is
\* text ("file"), or something that exists and that read_to_string cannot
\* read, such as a directory or bytes that are not UTF-8 ("unreadable").
Absent == [kind |-> "absent", data |-> <<>>]
Unreadable == [kind |-> "unreadable", data |-> <<>>]
TextFile(data) == [kind |-> "file", data |-> data]

Ok(op, v)  == [op |-> op, outcome |-> "Ok", args |-> v]
Err(op, e) == [op |-> op, outcome |-> e, args |-> <<>>]

\* A variant of load_from_file that takes an unparsable file for no file.
load_from_file_lenient(f) ==
    IF f.kind # "absent"
    THEN IF f.kind = "unreadable" THEN Err("load_from_file", "ReadError")
         ELSE LET r == from_str(f.data)
              IN  IF r.ok THEN Ok("load_from_file", r.val)
                  ELSE Ok("load_from_file", new)
    ELSE Ok("load_from_file", new)

\* Library::load_from_file
load_from_file(f) ==
    IF f.kind # "absent"
    THEN IF f.kind = "unreadable" THEN Err("load_from_file", "ReadError")
         ELSE LET r == from_str(f.data)
              IN  IF r.ok THEN Ok("load_from_file", r.val)
                  ELSE Err("load_from_file", "ParseError")
    ELSE Ok("load_from_file", new)

\* A variant of save_to_file that writes after the text already in the file.
save_to_file_append(self, f, wrote) ==
    LET data == to_string(self) IN
    CASE wrote = "all"  -> [file |-> TextFile(f.data \o data),
                            out |-> Ok("save_to_file", <<>>)]
      [] wrote = "none" -> [file |-> f, out |-> Err("save_to_file", "WriteError")]
      [] wrote = "part" -> [file |-> TextFile(SubSeq(data, 1, Len(data) \div 2)),
                            out |-> Err("save_to_file", "WriteError")]

\* Library::save_to_file.  wrote is what fs::write achieved: "all" (the file
\* now holds exactly the new text), "none" (it failed before touching the
\* path) or "part" (it failed after truncating the file and writing a prefix).
save_to_file(self, f, wrote) ==
    LET data == to_string(self) IN
    CASE wrote = "all"  -> [file |-> TextFile(data), out |-> Ok("save_to_file", <<>>)]
      [] wrote = "none" -> [file |-> f, out |-> Err("save_to_file", "WriteError")]
      [] wrote = "part" -> [file |-> TextFile(SubSeq(data, 1, Len(data) \div 2)),
                            out |-> Err("save_to_file", "WriteError")]


\* Texts that did not come from save_to_file.  Sample is a catalog with one
\* issued book; the valid texts below all denote it.
Sample ==
    [books |-> <<[id |-> 1, title |-> "Echo", author |-> "Herbert",
                  is_issued |-> TRUE]>>,
     users |-> <<[id |-> 1, name |-> "Alice", borrowed_books |-> <<1>>]>>]

SampleBook == <<P("{"), S("is_issued"), P(":"), B(TRUE), P(","),
                S("shelf"), P(":"), P("["), N(3), P(","), S("B"), P("]"), P(","),
                S("author"), P(":"), S("Herbert"), P(","),
                S("title"), P(":"), S("Echo"), P(","),
                S("id"), P(":"), N(1), P("}")>>
SampleUser == <<P("["), N(1), P(","), S("Alice"), P(","),
                P("["), N(1), P("]"), P("]")>>

\* fields in another order, an unknown field, a struct written as an array
ValidDocs ==
    { <<P("{"), S("users"), P(":"), P("[")>> \o SampleUser
        \o <<P("]"), P(","), S("version"), P(":"), P("{"), S("n"), P(":"), N(2), P("}"),
             P(","), S("books"), P(":"), P("[")>> \o SampleBook \o <<P("]"), P("}")>>,
      <<P("["), P("[")>> \o ser_Book(Sample.books[1]) \o <<P("]"), P(","), P("[")>>
        \o ser_User(Sample.users[1]) \o <<P("]"), P("]")>> }

InvalidDocs ==
    { <<>>,                                                 \* empty file
      SubSeq(to_string(Sample), 1, Len(to_string(Sample)) - 1),  \* cut short
      to_string(Sample) \o <<P("}")>>,                      \* trailing text
      <<P("{"), S("books"), P(":"), P("["), P("]"), P("}")>>,    \* no users
      <<P("{"), S("books"), P(":"), P("["),
        P("{"), S("id"), P(":"), N(1), P(","), S("title"), P(":"), S("Echo"), P(","),
        S("author"), P(":"), S("Herbert"), P(","),
        S("is_issued"), P(":"), N(1), P("}"),
        P("]"), P(","), S("users"), P(":"), P("["), P("]"), P("}")>>,  \* flag a number
      <<P("{"), S("books"), P(":"), P("["), P("]"), P(","),
        S("users"), P(":"), P("["),
        P("{"), S("id"), P(":"), N(-1), P(","), S("name"), P(":"), S("Alice"), P(","),
        S("borrowed_books"), P(":"), P("["), P("]"), P("}"),
        P("]"), P("}")>> }                                  \* negative id

ForeignDocs == ValidDocs \cup InvalidDocs

(* ----------------------------- actions --------------------------------- *)

Init ==
    /\ library = new
    /\ out = NoOut
    /\ file = Absent
    /\ pc = "run"

AddBook ==
    /\ pc = "run"
    /\ \E title \in Titles, author \in Authors :
         LET r == add_book(library, title, author)
         IN  /\ Len(r.lib.books) <= MaxBooks
             /\ library' = r.lib /\ out' = r.out
    /\ UNCHANGED <<file, pc>>

AddUser ==
    /\ pc = "run"
    /\ \E name \in Names :
         LET r == add_user(library, name)
         IN  /\ Len(r.lib.users) <= MaxUsers
             /\ library' = r.lib /\ out' = r.out
    /\ UNCHANGED <<file, pc>>

DisplayBooks ==
    /\ pc = "run"
    /\ LET r == display_books(library)
       IN  library' = r.lib /\ out' = r.out
    /\ UNCHANGED <<file, pc>>

IssueBook ==
    /\ pc = "run"
    /\ \E title \in Titles, user \in Names :
         LET r == issue_book(library, title, user)
         IN  library' = r.lib /\ out' = r.out
    /\ UNCHANGED <<file, pc>>

ReturnBook ==
    /\ pc = "run"
    /\ \E title \in Titles, user \in Names :
         LET r == return_book(library, title, user)
         IN  library' = r.lib /\ out' = r.out
    /\ UNCHANGED <<file, pc>>

\* Library::save_to_file(&library, path); fs::write succeeds or fails.
SaveToFile ==
    /\ pc = "run"
    /\ \E wrote \in {"all", "none", "part"} :
         LET r == save_to_file(library, file, wrote)
         IN  /\ file' = r.file
             /\ out' = r.out
             /\ pc' = IF wrote = "all" THEN "saved" ELSE "save_failed"
    /\ UNCHANGED library

\* Library::load_from_file(path); the Result it returns is recorded in out.
\* pc "reloaded" is a load that directly follows a successful save.
LoadFromFile ==
    /\ pc \in {"run", "saved", "save_failed"}
    /\ out' = load_from_file(file)
    /\ pc' = CASE pc = "run"         -> "run"
               [] pc = "saved"       -> "reloaded"
               [] pc = "save_failed" -> "loaded"
    /\ UNCHANGED <<library, file>>

\* The catalog operations alone, from Library::new().
Next == AddBook \/ AddUser \/ DisplayBooks \/ IssueBook \/ ReturnBook

Spec == Init /\ [][Next]_vars

\* Persistence: whatever is at the path when the process starts, a catalog
\* built by the operations, saved once and loaded again.
PInit ==
    /\ library = new
    /\ out = NoOut
    /\ file \in {Absent, Unreadable} \cup {TextFile(d) : d \in ForeignDocs}
    /\ pc = "run"

PAddBook == AddBook /\ Len(library'.books) <= PMaxBooks
PAddUser == AddUser /\ Len(library'.users) <= PMaxUsers

PNext ==
    \/ PAddBook \/ PAddUser \/ IssueBook \/ ReturnBook
    \/ SaveToFile \/ LoadFromFile

PersistSpec == PInit /\ [][PNext]_vars

(* ------------------------------ the shell ------------------------------ *)

\* A line read from stdin is the sequence of its characters; the empty
\* sequence is what read_line leaves at end of input.
Whitespace == {" ", "\t", "\n", "\r"}
Digits == <<"0", "1", "2", "3", "4", "5", "6", "7", "8", "9">>

RECURSIVE trim_start(_)
trim_start(s) ==
    IF s # <<>> /\ Head(s) \in Whitespace THEN trim_start(Tail(s)) ELSE s

RECURSIVE trim_end(_)
trim_end(s) ==
    IF s # <<>> /\ s[Len(s)] \in Whitespace
    THEN trim_end(SubSeq(s, 1, Len(s) - 1)) ELSE s

\* str::trim
trim(s) == trim_end(trim_start(s))

IsDigit(c) == \E d \in 1..10 : Digits[d] = c
DigitVal(c) == (CHOOSE d \in 1..10 : Digits[d] = c) - 1

RECURSIVE decimal(_, _)
decimal(s, acc) ==
    IF s = <<>> THEN acc ELSE decimal(Tail(s), acc * 10 + DigitVal(Head(s)))

\* str::parse::<u32>: an optional "+", then one or more digits.  The lines
\* of the model have at most two digits, so the value always fits in u32.
parse(s) ==
    LET ds == IF s # <<>> /\ Head(s) = "+" THEN Tail(s) ELSE s IN
    IF ds # <<>> /\ \A i \in 1..Len(ds) : IsDigit(ds[i])
    THEN [ok |-> TRUE, num |-> decimal(ds, 0)]
    ELSE [ok |-> FALSE, num |-> 0]

\* What one turn of the loop leaves: the catalog, the line printed, the
\* file, and whether the loop goes on ("menu") or has ended ("done").
Turn(lib, o, f, p) == [lib |-> lib, out |-> o, file |-> f, pc |-> p]

\* A variant of the Add Book arm without the test for blank fields.
choice_1_unchecked(lib, f, line1, line2) ==
    LET r == add_book(lib, trim(line1), trim(line2))
    IN  Turn(r.lib, r.out, f, "menu")

\* main, arm 1: Add Book
choice_1(lib, f, line1, line2) ==
    LET title  == trim(line1)
        author == trim(line2)
    IN  IF title = <<>> \/ author = <<>>
        THEN Turn(lib, Msg("main", "EmptyField", <<1>>), f, "menu")
        ELSE LET r == add_book(lib, title, author)
             IN  Turn(r.lib, r.out, f, "menu")

\* main, arm 2: Add User
choice_2(lib, f, line1) ==
    LET name == trim(line1)
    IN  IF name = <<>>
        THEN Turn(lib, Msg("main", "EmptyField", <<2>>), f, "menu")
        ELSE LET r == add_user(lib, name)
             IN  Turn(r.lib, r.out, f, "menu")

\* main, arm 3: Issue Book
choice_3(lib, f, line1, line2) ==
    LET title == trim(line1)
        user  == trim(line2)
    IN  IF title = <<>> \/ user = <<>>
        THEN Turn(lib, Msg("main", "EmptyField", <<3>>), f, "menu")
        ELSE LET r == issue_book(lib, title, user)
             IN  Turn(r.lib, r.out, f, "menu")

\* main, arm 4: Return Book
choice_4(lib, f, line1, line2) ==
    LET title == trim(line1)
        user  == trim(line2)
    IN  IF title = <<>> \/ user = <<>>
        THEN Turn(lib, Msg("main", "EmptyField", <<4>>), f, "menu")
        ELSE LET r == return_book(lib, title, user)
             IN  Turn(r.lib, r.out, f, "menu")

\* main, arm 5: Display Books
choice_5(lib, f) ==
    LET r == display_books(lib) IN Turn(r.lib, r.out, f, "menu")

\* A variant of the Exit arm that goes back to the menu when the save fails.
choice_6_stay_on_error(lib, f, wrote) ==
    LET r == save_to_file(lib, f, wrote)
    IN  IF r.out.outcome = "Ok"
        THEN Turn(lib, Msg("main", "Saved", <<>>), r.file, "done")
        ELSE Turn(lib, Msg("main", "SaveError", <<r.out.outcome>>), r.file, "menu")

\* main, arm 6: Exit
choice_6(lib, f, wrote) ==
    LET r == save_to_file(lib, f, wrote)
    IN  IF r.out.outcome = "Ok"
        THEN Turn(lib, Msg("main", "Saved", <<>>), r.file, "done")
        ELSE Turn(lib, Msg("main", "SaveError", <<r.out.outcome>>), r.file, "done")

\* main: one turn of the menu loop.  choice is the line read at the menu
\* prompt, line1 and line2 the lines read at the prompts of the arm (an arm
\* reads only the lines it asks for), wrote is what fs::write achieves.
menu(lib, f, choice, line1, line2, wrote) ==
    LET c == parse(trim(choice)) IN
    IF ~c.ok THEN Turn(lib, Msg("main", "InvalidInput", <<>>), f, "menu")
    ELSE CASE c.num = 1 -> choice_1(lib, f, line1, line2)
           [] c.num = 2 -> choice_2(lib, f, line1)
           [] c.num = 3 -> choice_3(lib, f, line1, line2)
           [] c.num = 4 -> choice_4(lib, f, line1, line2)
           [] c.num = 5 -> choice_5(lib, f)
           [] c.num = 6 -> choice_6(lib, f, wrote)
           [] OTHER     -> Turn(lib, Msg("main", "InvalidChoice", <<>>), f, "menu")

\* A variant of the start of main that gives up when the load fails.
main_start_strict(f) ==
    LET r == load_from_file(f) IN
    IF r.outcome = "Ok"
    THEN Turn(r.args, Msg("main", "Initialized",
                          <<Len(r.args.books), Len(r.args.users)>>), f, "menu")
    ELSE Turn(new, Msg("main", "LoadError", <<r.outcome>>), f, "done")

\* main: load library.json, or report the error and start empty
main_start(f) ==
    LET r == load_from_file(f) IN
    IF r.outcome = "Ok"
    THEN Turn(r.args, Msg("main", "Initialized",
                          <<Len(r.args.books), Len(r.args.users)>>), f, "menu")
    ELSE Turn(new, Msg("main", "LoadError", <<r.outcome>>), f, "menu")

\* the size of the catalogs built through the menu
SMaxBooks == 2
SMaxUsers == 2

\* Lines typed at the prompts.
ChoiceLines ==
    { <<"1", "\n">>, <<" ", "2", " ", "\n">>, <<"0", "3", "\n">>, <<"4", "\n">>,
      <<"5", "\n">>, <<"6", "\n">>, <<"+", "6", "\n">>, <<"0", "\n">>,
      <<"7", "\n">>, <<"1", "6", "\n">>,
      <<"x", "\n">>, <<"-", "1", "\n">>, <<"1", " ", "2", "\n">>,
      <<"+", "\n">>, <<"\n">>, <<>> }
TitleLines ==
    { <<" ", "E", " ", "\n">>, <<" ", "\n">> }
AuthorLines == { <<"H", "\n">>, <<"\t", "\r", "\n">> }
NameLines == { <<"A", "\n">>, <<"B", " ", "C", " ", "\n">>, <<>> }

\* A catalog saved by an earlier run of the shell.
ShellSample ==
    [books |-> <<[id |-> 1, title |-> <<"E">>, author |-> <<"H">>,
                  is_issued |-> TRUE]>>,
     users |-> <<[id |-> 1, name |-> <<"A">>, borrowed_books |-> <<1>>]>>]

\* Texts at library.json that are not a catalog document.
ShellBadDocs ==
    { <<>>, SubSeq(to_string(ShellSample), 1, Len(to_string(ShellSample)) - 2) }

ShellInit ==
    /\ library = new
    /\ out = NoOut
    /\ file \in {Absent, Unreadable, TextFile(to_string(ShellSample))}
                \cup {TextFile(d) : d \in ShellBadDocs}
    /\ pc = "start"

Start ==
    /\ pc = "start"
    /\ LET r == main_start(file)
       IN  library' = r.lib /\ out' = r.out /\ pc' = r.pc
    /\ UNCHANGED file

\* One turn of the loop whose menu line parses to a number in nums.
MenuTurn(nums, FirstLines, SecondLines, Wrote) ==
    /\ pc = "menu"
    /\ \E choice \in ChoiceLines :
         /\ LET c == parse(trim(choice)) IN c.ok /\ c.num \in nums
         /\ \E line1 \in FirstLines, line2 \in SecondLines, wrote \in Wrote :
              \E r \in {menu(library, file, choice, line1, line2, wrote)} :
                  /\ Len(r.lib.books) <= SMaxBooks
                  /\ Len(r.lib.users) <= SMaxUsers
                  /\ library' = r.lib /\ out' = r.out
                  /\ file' = r.file /\ pc' = r.pc

MenuAddBook     == MenuTurn({1}, TitleLines, AuthorLines, {"none"})
MenuAddUser     == MenuTurn({2}, NameLines, {<<>>}, {"none"})
MenuIssueBook   == MenuTurn({3}, TitleLines, NameLines, {"none"})
MenuReturnBook  == MenuTurn({4}, TitleLines, NameLines, {"none"})
MenuDisplay     == MenuTurn({5}, {<<>>}, {<<>>}, {"none"})
MenuExit        == MenuTurn({6}, {<<>>}, {<<>>}, {"all", "none", "part"})
MenuInvalidChoice == MenuTurn((0..99) \ (1..6), {<<>>}, {<<>>}, {"none"})

\* the menu line is not a number
MenuInvalidInput ==
    /\ pc = "menu"
    /\ \E choice \in ChoiceLines :
         /\ ~parse(trim(choice)).ok
         /\ \E r \in {menu(library, file, choice, <<>>, <<>>, "none")} :
             /\ library' = r.lib /\ out' = r.out /\ file' = r.file /\ pc' = r.pc

\* read_line fails at some prompt (stdin is not UTF-8): expect() panics
ReadLineFails ==
    /\ pc = "menu"
    /\ out' = Msg("main", "Panic", <<>>)
    /\ pc' = "panicked"
    /\ UNCHANGED <<library, file>>

ShellNext ==
    \/ Start
    \/ MenuAddBook \/ MenuAddUser \/ MenuIssueBook \/ MenuReturnBook
    \/ MenuDisplay \/ MenuExit \/ MenuInvalidChoice \/ MenuInvalidInput
    \/ ReadLineFails

ShellSpec == ShellInit /\ [][ShellNext]_vars


(* ----------------------------- properties ------------------------------ *)

\* how many times id occurs in the borrowed_books of all users together
RECURSIVE Count(_, _)
Count(s, x) ==
    IF s = <<>> THEN 0 ELSE (IF Head(s) = x THEN 1 ELSE 0) + Count(Tail(s), x)

RECURSIVE Occurrences(_, _)
Occurrences(users, id) ==
    IF users = <<>> THEN 0
    ELSE Count(Head(users).borrowed_books, id) + Occurrences(Tail(users), id)

Holders(users, id) ==
    {i \in 1..Len(users) : Contains(users[i].borrowed_books, id)}

AvailableCopy(lib, title) ==
    \E i \in 1..Len(lib.books) :
        lib.books[i].title = title /\ ~lib.books[i].is_issued

IssuedCopy(lib, title) ==
    \E i \in 1..Len(lib.books) :
        lib.books[i].title = title /\ lib.books[i].is_issued

HasUser(lib, name) == \E i \in 1..Len(lib.users) : lib.users[i].name = name

\* C1: a book is issued iff its id is in the borrowed_books of exactly one
\* user, exactly once; a book that is not issued is in no borrowed_books.
LoanInvariant ==
    \A i \in 1..Len(library.books) :
        LET b == library.books[i] IN
        /\ b.is_issued <=> (Cardinality(Holders(library.users, b.id)) = 1
                            /\ Occurrences(library.users, b.id) = 1)
        /\ ~b.is_issued => Occurrences(library.users, b.id) = 0

\* a book has just been returned while another copy is still out
LoanWitness ==
    /\ out.op = "return_book" /\ out.outcome = "Returned"
    /\ \E i, j \in 1..Len(library.books) :
          library.books[i].is_issued /\ ~library.books[j].is_issued

\* C2: whenever issue_book(title, user) succeeds, return_book(title, user)
\* right after it succeeds and gives back the catalog as it was before.
IssueReturnRoundTrip ==
    \A title \in Titles, user \in Names :
        LET i == issue_book(library, title, user) IN
        i.out.outcome = "Issued" =>
            LET r == return_book(i.lib, title, user) IN
            r.out.outcome = "Returned" /\ r.lib = library

\* C3: a successful issue_book flags the first available book with the
\* title, appends its id to the named user's list, and changes nothing else.
FirstAvailableCopy ==
    \A title \in Titles, user \in Names :
        LET r == issue_book(library, title, user) IN
        r.out.outcome = "Issued" =>
            \E k \in 1..Len(library.books), n \in 1..Len(library.users) :
                /\ library.books[k].title = title /\ ~library.books[k].is_issued
                /\ \A j \in 1..(k - 1) :
                      ~(library.books[j].title = title /\ ~library.books[j].is_issued)
                /\ library.users[n].name = user
                /\ Len(r.lib.books) = Len(library.books)
                /\ \A j \in 1..Len(library.books) :
                      r.lib.books[j] =
                          IF j = k
                          THEN [id |-> library.books[k].id, title |-> title,
                                author |-> library.books[k].author,
                                is_issued |-> TRUE]
                          ELSE library.books[j]
                /\ Len(r.lib.users) = Len(library.users)
                /\ \A m \in 1..Len(library.users) :
                      r.lib.users[m] =
                          IF m = n
                          THEN [id |-> library.users[n].id, name |-> user,
                                borrowed_books |->
                                    library.users[n].borrowed_books
                                        \o <<library.books[k].id>>]
                          ELSE library.users[m]

\* a title was just issued whose first copy is out and a later one is not
FirstAvailableWitness ==
    /\ out.op = "issue_book" /\ out.outcome = "Issued"
    /\ \E i, j \in 1..Len(library.books) :
          /\ i < j
          /\ library.books[i].title = out.args[1]
          /\ library.books[j].title = out.args[1]
          /\ library.books[i].is_issued /\ ~library.books[j].is_issued

\* C4: the i-th book has id i and the i-th user has id i.
SequentialIds ==
    /\ \A i \in 1..Len(library.books) : library.books[i].id = i
    /\ \A i \in 1..Len(library.users) : library.users[i].id = i

\* a second user was added next to at least two books
SequentialIdsWitness ==
    /\ out.op = "add_user" /\ out.outcome = "Added"
    /\ Len(library.users) >= 2 /\ Len(library.books) >= 2

\* C5: add_user with an existing name reports the duplicate and changes
\* nothing; with a new name it appends one user with no loans and changes
\* nothing else.
DuplicateUser ==
    \A name \in Names :
        LET r == add_user(library, name) IN
        IF HasUser(library, name)
        THEN r.out.outcome = "DuplicateUser" /\ r.lib = library
        ELSE /\ r.out.outcome = "Added"
             /\ r.lib.books = library.books
             /\ Len(r.lib.users) = Len(library.users) + 1
             /\ SubSeq(r.lib.users, 1, Len(library.users)) = library.users
             /\ r.lib.users[Len(r.lib.users)].name = name
             /\ r.lib.users[Len(r.lib.users)].borrowed_books = <<>>

\* a duplicate was just refused in a catalog that has books and loans
DuplicateUserWitness ==
    /\ out.op = "add_user" /\ out.outcome = "DuplicateUser"
    /\ HasUser(library, out.args[1])
    /\ \E i \in 1..Len(library.books) : library.books[i].is_issued

\* C6: issue_book for a name no user has reports UnknownUser and changes
\* nothing, whether or not a copy of the title is available.
UnknownUserFirst ==
    \A title \in Titles, user \in Names :
        ~HasUser(library, user) =>
            LET r == issue_book(library, title, user) IN
            r.out.outcome = "UnknownUser" /\ r.lib = library

\* UnknownUser was just reported while no title has an available copy
UnknownUserWitness ==
    /\ out.op = "issue_book" /\ out.outcome = "UnknownUser"
    /\ ~HasUser(library, out.args[1])
    /\ library.users # <<>>
    /\ \E title \in Titles : ~AvailableCopy(library, title)
    /\ \E title \in Titles : AvailableCopy(library, title)

\* C7: for an existing user issue_book reports BookUnavailable exactly when
\* no book has the title and is not issued, and succeeds otherwise.
BookUnavailable ==
    \A title \in Titles, user \in Names :
        HasUser(library, user) =>
            LET r == issue_book(library, title, user) IN
            IF AvailableCopy(library, title)
            THEN r.out.outcome = "Issued"
            ELSE r.out.outcome = "BookUnavailable" /\ r.lib = library

\* BookUnavailable was just reported for a title whose copies are all out
BookUnavailableWitness ==
    /\ out.op = "issue_book" /\ out.outcome = "BookUnavailable"
    /\ IssuedCopy(library, out.args[1])
    /\ ~AvailableCopy(library, out.args[1])

\* C8: return_book reports UnknownUser, else BookNotIssued, else
\* NotBorrowedByUser (judged on the first issued book with the title),
\* else succeeds.
ReturnOutcomeOrder ==
    \A title \in Titles, user \in Names :
        LET r == return_book(library, title, user)
            first == CHOOSE k \in 1..Len(library.books) :
                        /\ library.books[k].title = title
                        /\ library.books[k].is_issued
                        /\ \A j \in 1..(k - 1) :
                              ~(library.books[j].title = title
                                /\ library.books[j].is_issued)
        IN  r.out.outcome =
                IF ~HasUser(library, user) THEN "UnknownUser"
                ELSE IF ~IssuedCopy(library, title) THEN "BookNotIssued"
                ELSE IF \A n \in 1..Len(library.users) :
                           library.users[n].name = user =>
                               ~Contains(library.users[n].borrowed_books,
                                         library.books[first].id)
                THEN "NotBorrowedByUser"
                ELSE "Returned"

\* NotBorrowedByUser was just reported: the title is out, with someone else
ReturnOutcomeWitness ==
    /\ out.op = "return_book" /\ out.outcome = "NotBorrowedByUser"
    /\ HasUser(library, out.args[1])
    /\ IssuedCopy(library, out.args[2])

\* C9: a load that directly follows a successful save returns the catalog
\* that was saved, whatever was at the path before the save.
SaveLoadRoundTrip ==
    pc = "reloaded" =>
        /\ out = Ok("load_from_file", library)
        /\ file = TextFile(to_string(library))

\* a catalog with two books, two users and a loan went through save and load
SaveLoadWitness ==
    /\ pc = "reloaded"
    /\ out.op = "load_from_file"
    /\ Len(library.books) = 2 /\ Len(library.users) = 2
    /\ library.books[2].is_issued /\ ~library.books[1].is_issued

\* C10: load_from_file returns the empty catalog when nothing is at the
\* path, an error when what is there cannot be read or is not a catalog
\* document, and the catalog the document denotes otherwise.
LoadOutcomes ==
    out.op = "load_from_file" =>
        CASE file.kind = "absent"     -> out = Ok("load_from_file", new)
          [] file.kind = "unreadable" -> out = Err("load_from_file", "ReadError")
          [] file.kind = "file" ->
                IF file.data \in InvalidDocs
                THEN out = Err("load_from_file", "ParseError")
                ELSE IF file.data \in ValidDocs
                THEN out = Ok("load_from_file", Sample)
                ELSE IF pc = "reloaded"
                THEN out = Ok("load_from_file", library)
                ELSE out = Err("load_from_file", "ParseError")

\* a document cut short by a failed write was just refused
LoadOutcomesWitness ==
    /\ out = Err("load_from_file", "ParseError")
    /\ pc = "loaded"
    /\ file.kind = "file" /\ file.data \notin ForeignDocs

\* C13: a successful return_book clears the flag of one book, the first
\* issued book with the title, and removes one occurrence of that book's id
\* from the named user's list; everything else keeps its value and order.
ReturnEffect ==
    \A title \in Titles, user \in Names :
        LET r == return_book(library, title, user) IN
        r.out.outcome = "Returned" =>
            \E k \in 1..Len(library.books), n \in 1..Len(library.users) :
                LET bb == library.users[n].borrowed_books IN
                /\ library.books[k].title = title /\ library.books[k].is_issued
                /\ \A j \in 1..(k - 1) :
                      ~(library.books[j].title = title /\ library.books[j].is_issued)
                /\ library.users[n].name = user
                /\ Len(r.lib.books) = Len(library.books)
                /\ \A j \in 1..Len(library.books) :
                      r.lib.books[j] =
                          IF j = k
                          THEN [id |-> library.books[k].id, title |-> title,
                                author |-> library.books[k].author,
                                is_issued |-> FALSE]
                          ELSE library.books[j]
                /\ Len(r.lib.users) = Len(library.users)
                /\ \A m \in 1..Len(library.users) :
                      m # n => r.lib.users[m] = library.users[m]
                /\ r.lib.users[n].id = library.users[n].id
                /\ r.lib.users[n].name = user
                /\ \E p \in 1..Len(bb) :
                      /\ bb[p] = library.books[k].id
                      /\ r.lib.users[n].borrowed_books =
                            SubSeq(bb, 1, p - 1) \o SubSeq(bb, p + 1, Len(bb))

\* a user who held three books has just returned one of them, and another
\* copy of the returned title is still out
ReturnEffectWitness ==
    /\ out.op = "return_book" /\ out.outcome = "Returned"
    /\ \E n \in 1..Len(library.users) :
          /\ library.users[n].name = out.args[2]
          /\ Len(library.users[n].borrowed_books) = 2
    /\ IssuedCopy(library, out.args[1])

IssuedCount(lib, title) ==
    Cardinality({i \in 1..Len(lib.books) :
                    lib.books[i].title = title /\ lib.books[i].is_issued})

Copies(lib, title) ==
    Cardinality({i \in 1..Len(lib.books) : lib.books[i].title = title})

\* the loans of books with this title, over all users
LoanCount(lib, title) ==
    Cardinality({<<n, p>> \in (1..Len(lib.users)) \X (1..Len(lib.books)) :
        /\ p <= Len(lib.users[n].borrowed_books)
        /\ \E i \in 1..Len(lib.books) :
              /\ lib.books[i].id = lib.users[n].borrowed_books[p]
              /\ lib.books[i].title = title})

\* C14 as stated: no title has two issued books.
AtMostOneIssuedPerTitle ==
    \A title \in Titles : IssuedCount(library, title) <= 1

\* C14 as amended: the issued books of a title are as many as the loans of
\* books of that title, at most one when the title has one copy, and a
\* successful issue_book adds exactly one to them; a title with several
\* copies can have several issued.
IssuedCopiesPerTitle ==
    \A title \in Titles :
        /\ IssuedCount(library, title) = LoanCount(library, title)
        /\ Copies(library, title) <= 1 => IssuedCount(library, title) <= 1
        /\ \A user \in Names :
              LET r == issue_book(library, title, user) IN
              r.out.outcome = "Issued" =>
                  \A t \in Titles :
                      IssuedCount(r.lib, t) =
                          IssuedCount(library, t) + (IF t = title THEN 1 ELSE 0)

\* two copies of the title just issued are out while a third is not
IssuedCopiesWitness ==
    /\ out.op = "issue_book" /\ out.outcome = "Issued"
    /\ IssuedCount(library, out.args[1]) = 2
    /\ Copies(library, out.args[1]) = 3

\* how many books with this title the n-th user holds
HeldCount(lib, n, title) ==
    Cardinality({p \in 1..Len(lib.users[n].borrowed_books) :
        \E i \in 1..Len(lib.books) :
            /\ lib.books[i].id = lib.users[n].borrowed_books[p]
            /\ lib.books[i].title = title})

\* C15: a user who holds a book with a title can return that title, and
\* holds one book of the title fewer afterwards.
HolderCanReturn ==
    \A n \in 1..Len(library.users), title \in Titles :
        HeldCount(library, n, title) > 0 =>
            LET r == return_book(library, title, library.users[n].name) IN
            /\ r.out.outcome = "Returned"
            /\ HeldCount(r.lib, n, title) = HeldCount(library, n, title) - 1

FailureOutcomes ==
    {"UnknownUser", "BookUnavailable", "BookNotIssued", "NotBorrowedByUser",
     "DuplicateUser"}

\* C16: a call that ends in UnknownUser, BookUnavailable, BookNotIssued,
\* NotBorrowedByUser or DuplicateUser leaves the catalog as it was.
FailuresChangeNothing ==
    /\ \A title \in Titles, user \in Names :
          /\ LET r == issue_book(library, title, user) IN
             r.out.outcome \in FailureOutcomes => r.lib = library
          /\ LET r == return_book(library, title, user) IN
             r.out.outcome \in FailureOutcomes => r.lib = library
    /\ \A name \in Names :
          LET r == add_user(library, name) IN
          r.out.outcome \in FailureOutcomes => r.lib = library

\* a return was just refused for want of an issued copy while books of
\* another title are out
FailuresWitness ==
    /\ out.op = "return_book" /\ out.outcome = "BookNotIssued"
    /\ ~IssuedCopy(library, out.args[1])
    /\ \E i \in 1..Len(library.books) : library.books[i].is_issued

\* C17: no two users have the same name.
UniqueNames ==
    \A i, j \in 1..Len(library.users) :
        library.users[i].name = library.users[j].name => i = j

\* a book was just issued in a catalog of two users, after a lookup by name
UniqueNamesWitness ==
    /\ out.op = "issue_book" /\ out.outcome = "Issued"
    /\ Len(library.users) = 2
    /\ Len(library.users[2].borrowed_books) > 0

\* The lines of the model by what they say, written out one by one.
ExitLines == { <<"6", "\n">>, <<"+", "6", "\n">> }
NonNumericLines ==
    { <<"x", "\n">>, <<"-", "1", "\n">>, <<"1", " ", "2", "\n">>,
      <<"+", "\n">>, <<"\n">>, <<>> }
OutOfRangeLines == { <<"0", "\n">>, <<"7", "\n">>, <<"1", "6", "\n">> }
BlankLines == { <<" ", "\n">>, <<"\t", "\r", "\n">>, <<"\n">>, <<>> }
OneFieldLines == { <<" ", "2", " ", "\n">> }
TwoFieldLines == { <<"1", "\n">>, <<"0", "3", "\n">>, <<"4", "\n">> }

\* The lines a turn can read after the menu line: arms 1, 3 and 4 read two,
\* arm 2 reads one, every other turn reads none.
FirstLinesOf(choice) ==
    IF choice \in OneFieldLines \cup TwoFieldLines
    THEN TitleLines \cup NameLines ELSE {<<>>}
SecondLinesOf(choice) ==
    IF choice \in TwoFieldLines THEN AuthorLines \cup NameLines ELSE {<<>>}

\* C11: a turn that reads choice 6 saves the catalog once and ends the
\* loop, whether the save succeeds or fails, and reports which; a turn that
\* reads anything else neither ends the loop nor touches the file.
ExitSavesAndTerminates ==
    pc = "menu" =>
        \A choice \in ChoiceLines :
            IF choice \in ExitLines
            THEN \A wrote \in {"all", "none", "part"} :
                    \A r \in {menu(library, file, choice, <<>>, <<>>, wrote)} :
                    /\ r.pc = "done"
                    /\ r.lib = library
                    /\ wrote = "all" => r.file = TextFile(to_string(library))
                    /\ wrote = "none" => r.file = file
                    /\ wrote = "part" => r.file.kind = "file"
                    /\ r.out.op = "main"
                    /\ r.out.outcome = IF wrote = "all" THEN "Saved" ELSE "SaveError"
            ELSE \A line1 \in FirstLinesOf(choice), line2 \in SecondLinesOf(choice) :
                    \A r \in {menu(library, file, choice, line1, line2, "all")} :
                    r.pc = "menu" /\ r.file = file

\* the loop has ended after a save that failed, with books in the catalog
ExitWitness ==
    /\ pc = "done"
    /\ out = Msg("main", "SaveError", <<"WriteError">>)
    /\ library.books # <<>>
    /\ file.kind = "absent"

\* C12: a book's flag goes from false to true only in a successful
\* issue_book and from true to false only in a successful return_book; each
\* of these changes the flag of exactly one book, and no other step of the
\* shell (add, display, refused call, rejected input, save) changes a flag.
BookStateMachine ==
    [][LET n == Len(library.books)
           changed == {i \in 1..n : i <= Len(library'.books) /\
                          library'.books[i].is_issued # library.books[i].is_issued}
           issued   == out'.op = "issue_book" /\ out'.outcome = "Issued"
           returned == out'.op = "return_book" /\ out'.outcome = "Returned"
       IN  /\ Len(library'.books) >= n
           /\ \A i \in changed :
                 IF library.books[i].is_issued THEN returned ELSE issued
           /\ (issued \/ returned) => Cardinality(changed) = 1
           /\ ~(issued \/ returned) => changed = {}]_vars

\* through the menu, the first of two copies came back while the second is out
BookStateWitness ==
    /\ pc = "menu"
    /\ out.op = "return_book" /\ out.outcome = "Returned"
    /\ Len(library.books) = 2
    /\ ~library.books[1].is_issued /\ library.books[2].is_issued

Rejected(choice, line1, line2) ==
    \/ choice \in NonNumericLines \cup OutOfRangeLines
    \/ choice \in OneFieldLines /\ line1 \in BlankLines
    \/ choice \in TwoFieldLines /\ (line1 \in BlankLines \/ line2 \in BlankLines)

\* C18: a menu line that is not a number, a number outside 1-6, and a
\* choice 1-4 with a blank field leave the catalog and the file as they are,
\* print only the shell's own message and go on with the loop; no book has
\* an empty title or author and no user an empty name.
ShellInputGuards ==
    /\ \A i \in 1..Len(library.books) :
          library.books[i].title # <<>> /\ library.books[i].author # <<>>
    /\ \A i \in 1..Len(library.users) : library.users[i].name # <<>>
    /\ pc = "menu" =>
          \A choice \in ChoiceLines :
          \A line1 \in FirstLinesOf(choice), line2 \in SecondLinesOf(choice) :
              Rejected(choice, line1, line2) =>
                  \A r \in {menu(library, file, choice, line1, line2, "all")} :
                  /\ r.lib = library /\ r.file = file /\ r.pc = "menu"
                  /\ r.out.op = "main"
                  /\ r.out.outcome =
                        IF choice \in NonNumericLines THEN "InvalidInput"
                        ELSE IF choice \in OutOfRangeLines THEN "InvalidChoice"
                        ELSE "EmptyField"

\* a blank field was just rejected in a catalog that has a book and a user
ShellInputWitness ==
    /\ pc = "menu"
    /\ out.op = "main" /\ out.outcome = "EmptyField"
    /\ library.books # <<>> /\ library.users # <<>>

\* C19: when the load at start fails the shell starts the menu with an
\* empty catalog; when it succeeds the catalog is the loaded one.
StartupDegradation ==
    (out.op = "main" /\ out.outcome \in {"Initialized", "LoadError"}) =>
        /\ pc = "menu"
        /\ CASE file.kind = "absent" ->
                   library = new /\ out.outcome = "Initialized"
             [] file.kind = "unreadable" ->
                   library = new /\ out.outcome = "LoadError"
             [] file.kind = "file" ->
                   IF file.data \in ShellBadDocs
                   THEN library = new /\ out.outcome = "LoadError"
                   ELSE library = ShellSample /\ out.outcome = "Initialized"

\* the menu was entered after a document that does not parse
StartupWitness ==
    /\ pc = "menu"
    /\ out = Msg("main", "LoadError", <<"ParseError">>)
    /\ file.kind = "file" /\ file.data # <<>>

====
